---- MODULE Spec2Model ----
(***************************************************************************)
(* Model of pomodoro_pyterm (src/main.py): the PomodoroApp session loop    *)
(* (UI thread) and the TimerThread countdown threads it starts.            *)
(*                                                                         *)
(* The UI thread is modelled at the granularity of one key per step,       *)
(* except where it shares state with a clock thread: stop_timer is split   *)
(* after stop() returns, and display_timer is split between clearing the   *)
(* timer window and writing the text, because a clock thread runs the same *)
(* display_timer as its callback with no lock.                             *)
(***************************************************************************)
EXTENDS Integers, Sequences, FiniteSets, TLC

(* ------------------------------ bounds --------------------------------- *)

\* most tasks a timer session adds
MaxTasks == 2
\* most tasks a menu session or a countdown session adds
MaxSessionTasks == 1
\* most TimerThread objects the session creates
MaxClocks == 2
\* most TimerThread objects a task session creates
MaxTaskClocks == 1

(* ------------------------- program constants --------------------------- *)

menu_options ==
  << "Add Task", "Start Timer", "Pause Timer", "Stop Timer",
     "View Tasks", "Visualize Data", "Exit" >>

languages == << "Python", "Golang", "Java", "Rust" >>

\* TimerThread.__init__: self.duration = duration * 60
SecondsPerMinute == 60

(* ------------------------------ inputs --------------------------------- *)

\* what the user may type at the title and description prompts
Titles == {"a", "b"}
Descriptions == {"d"}

\* what the user may type at the duration prompt, as character sequences
DurationTexts ==
  { <<>>, <<"x">>, <<"0">>, <<"-", "1">>, <<"1">>, <<" ", "1">>, <<"1", "x">> }

(* ---------------------- int(): parsing the duration -------------------- *)

Digits == <<"0", "1", "2", "3", "4", "5", "6", "7", "8", "9">>

IsDigit(c) == \E i \in 1..10 : Digits[i] = c

DigitVal(c) == (CHOOSE i \in 1..10 : Digits[i] = c) - 1

RECURSIVE LStrip(_)
LStrip(s) == IF s # <<>> /\ Head(s) = " " THEN LStrip(Tail(s)) ELSE s

RECURSIVE RStrip(_)
RStrip(s) ==
  IF s # <<>> /\ s[Len(s)] = " " THEN RStrip(SubSeq(s, 1, Len(s) - 1)) ELSE s

RECURSIVE DigitsVal(_)
DigitsVal(s) ==
  IF s = <<>> THEN 0
  ELSE 10 * DigitsVal(SubSeq(s, 1, Len(s) - 1)) + DigitVal(s[Len(s)])

\* Python's int(text): surrounding blanks are stripped, one optional sign,
\* then one or more decimal digits; anything else raises ValueError.
ParseInt(text) ==
  LET s == RStrip(LStrip(text))
      signed == s # <<>> /\ Head(s) \in {"-", "+"}
      body == IF signed THEN Tail(s) ELSE s
  IN IF body # <<>> /\ \A i \in 1..Len(body) : IsDigit(body[i])
     THEN [ok |-> TRUE,
           val |-> IF signed /\ Head(s) = "-" THEN 0 - DigitsVal(body)
                   ELSE DigitsVal(body)]
     ELSE [ok |-> FALSE, val |-> 0]

(* ------------------------------- state --------------------------------- *)

VARIABLES
  tasks,            \* PomodoroApp.tasks: sequence of task records
  current_timer,    \* PomodoroApp.current_timer: 0 for None, else index in clocks
  clocks,           \* every TimerThread created so far, in creation order
  current_option,   \* PomodoroApp.current_option, 0-based
  current_language, \* PomodoroApp.current_language, 0-based
  timer_win,        \* timer window: <<>> for the bare box, <<n>> when it
                    \* shows "Time Remaining" for n seconds
  csv_file,         \* the day's csv file: the rows last written by
                    \* save_to_csv, and how many times it has been written
  ui_pc             \* position of the UI thread

vars ==
  << tasks, current_timer, clocks, current_option, current_language,
     timer_win, csv_file, ui_pc >>

\* A TimerThread is alive from start() until run() returns.
is_alive(c) == clocks[c].pc # "done"

AliveClocks == {c \in 1..Len(clocks) : is_alive(c)}

Init ==
  /\ tasks = <<>>
  /\ current_timer = 0
  /\ clocks = <<>>
  /\ current_option = 0
  /\ current_language = 0
  /\ timer_win = <<>>
  /\ csv_file = [rows |-> <<>>, writes |-> 0]
  /\ ui_pc = "getch"


(* --------------------------- session phases ---------------------------- *)

\* Each clock record carries three history fields the code does not have:
\*   task  - index of the task the clock was started for (tasks[-1] then);
\*   last  - the remaining value the running thread last wrote through its
\*           callback, -1 before the first (dropped when run() returns);
\*   phase - the timer phase of the design (Running, Paused, Idle, Expired),
\*           recorded from the events the code does perform: start(),
\*           pause_timer's stop(), stop_timer's stop(), and callback(0).
PhaseAfterPause(ph) == IF ph = "Running" THEN "Paused" ELSE ph

PhaseAfterStop(ph) == IF ph \in {"Running", "Paused"} THEN "Idle" ELSE ph

PhaseAfterFinalTick(ph) == IF ph = "Running" THEN "Expired" ELSE ph

(* ------------------------------ UI thread ------------------------------ *)

Selected == menu_options[current_option + 1]

Enter(option) == ui_pc = "getch" /\ Selected = option

\* KEY_UP without the "current_option > 0" test of the branch
UpOptionUnguarded(o) == o - 1

UpOption(o) == IF o > 0 THEN o - 1 ELSE o

DownOption(o) == IF o < Len(menu_options) - 1 THEN o + 1 ELSE o

\* key == curses.KEY_UP
NavigateUp ==
  /\ ui_pc = "getch"
  /\ current_option' = UpOption(current_option)
  /\ UNCHANGED << tasks, current_timer, clocks, current_language, timer_win,
                  csv_file, ui_pc >>

\* key == curses.KEY_DOWN
NavigateDown ==
  /\ ui_pc = "getch"
  /\ current_option' = DownOption(current_option)
  /\ UNCHANGED << tasks, current_timer, clocks, current_language, timer_win,
                  csv_file, ui_pc >>

\* key l wrapping one tag too early
NextLanguageShort(l) == (l + 1) % (Len(languages) - 1)

NextLanguage(l) == (l + 1) % Len(languages)

\* key == ord('l')
CycleLanguage ==
  /\ ui_pc = "getch"
  /\ current_language' = NextLanguage(current_language)
  /\ UNCHANGED << tasks, current_timer, clocks, current_option, timer_win,
                  csv_file, ui_pc >>

\* any key the loop has no branch for
OtherKey ==
  /\ ui_pc = "getch"
  /\ UNCHANGED vars

\* add_task without the except ValueError branch
DurationAcceptedAlways(parsed) == TRUE

\* add_task accepts whatever int() accepts
DurationAccepted(parsed) == parsed.ok

\* add_task tagging every task with the first language
NewTaskFirstLanguage(title, desc, duration) ==
  [ title |-> title, description |-> desc, duration |-> duration,
    language |-> languages[1], status |-> "Not Started" ]

NewTask(title, desc, duration) ==
  [ title |-> title, description |-> desc, duration |-> duration,
    language |-> languages[current_language + 1], status |-> "Not Started" ]

\* save_to_csv: the whole list is written over the day's file
save_to_csv(rows) == [rows |-> rows, writes |-> csv_file.writes + 1]

\* Enter on "Add Task": add_task with the three strings typed at the prompts
AddTask(title, desc, text) ==
  /\ Enter("Add Task")
  /\ LET parsed == ParseInt(text)
     IN IF DurationAccepted(parsed)
        THEN /\ tasks' = Append(tasks, NewTask(title, desc, parsed.val))
             /\ csv_file' = save_to_csv(tasks')
        ELSE UNCHANGED << tasks, csv_file >>
  /\ UNCHANGED << current_timer, clocks, current_option, current_language,
                  timer_win, ui_pc >>

\* start_timer taking a clock whose stop() was called for one that has ended
TimerBusyUnlessStopped ==
  current_timer # 0 /\ is_alive(current_timer) /\ ~clocks[current_timer].stop_event

\* start_timer: self.current_timer and self.current_timer.is_alive()
TimerBusy == current_timer # 0 /\ is_alive(current_timer)

\* A TimerThread that has returned and that current_timer no longer refers
\* to is unreachable: its record is kept only as a placeholder.
Collected ==
  [ pc |-> "done", duration |-> 0, remaining |-> 0, stop_event |-> FALSE,
    task |-> 0, phase |-> "Collected", last |-> -1 ]

Collect(cs) ==
  [i \in 1..Len(cs) |-> IF cs[i].pc = "done" THEN Collected ELSE cs[i]]

\* TimerThread(duration, callback) followed by start()
NewClock(duration, task) ==
  [ pc |-> "loop", duration |-> duration * SecondsPerMinute,
    remaining |-> duration * SecondsPerMinute, stop_event |-> FALSE,
    task |-> task, phase |-> "Running", last |-> -1 ]

\* Enter on "Start Timer": start_timer
StartTimer ==
  /\ Enter("Start Timer")
  /\ IF tasks = <<>> \/ TimerBusy
     THEN UNCHANGED << tasks, current_timer, clocks >>
     ELSE /\ Len(clocks) < MaxClocks
          /\ clocks' = Append(Collect(clocks),
                              NewClock(tasks[Len(tasks)].duration, Len(tasks)))
          /\ current_timer' = Len(clocks) + 1
          /\ tasks' = [tasks EXCEPT ![Len(tasks)].status = "In Progress"]
  /\ UNCHANGED << current_option, current_language, timer_win, csv_file, ui_pc >>

\* Enter on "Pause Timer": pause_timer
PauseTimer ==
  /\ Enter("Pause Timer")
  /\ IF current_timer # 0
     THEN clocks' = [clocks EXCEPT ![current_timer].stop_event = TRUE,
                                   ![current_timer].phase = PhaseAfterPause(@)]
     ELSE UNCHANGED clocks
  /\ UNCHANGED << tasks, current_timer, current_option, current_language,
                  timer_win, csv_file, ui_pc >>

\* Enter on "Stop Timer": stop_timer up to the return of stop(); the
\* display_timer(0) that follows is UIDisplayClear and UIDisplayWrite
StopTimer ==
  /\ Enter("Stop Timer")
  /\ IF current_timer # 0
     THEN /\ clocks' = [clocks EXCEPT ![current_timer].stop_event = TRUE,
                                      ![current_timer].phase = PhaseAfterStop(@)]
          /\ ui_pc' = "display_clear"
     ELSE UNCHANGED << clocks, ui_pc >>
  /\ UNCHANGED << tasks, current_timer, current_option, current_language,
                  timer_win, csv_file >>

\* display_timer(0) on the UI thread: timer_win.clear(); timer_win.box()
UIDisplayClear ==
  /\ ui_pc = "display_clear"
  /\ timer_win' = <<>>
  /\ ui_pc' = "display_write"
  /\ UNCHANGED << tasks, current_timer, clocks, current_option,
                  current_language, csv_file >>

\* display_timer(0) on the UI thread: addstr(...); refresh()
UIDisplayWrite ==
  /\ ui_pc = "display_write"
  /\ timer_win' = <<0>>
  /\ ui_pc' = "getch"
  /\ UNCHANGED << tasks, current_timer, clocks, current_option,
                  current_language, csv_file >>

\* Enter on "View Tasks": the loop has no branch for it
ViewTasks ==
  /\ Enter("View Tasks")
  /\ UNCHANGED vars

\* Enter on "Visualize Data": visualize_data reads the csv files and writes
\* a png; it changes nothing of the session
VisualizeData ==
  /\ Enter("Visualize Data")
  /\ UNCHANGED vars

\* Enter on "Exit": break; no clock is stopped on the way out
ExitOption ==
  /\ Enter("Exit")
  /\ ui_pc' = "exited"
  /\ UNCHANGED << tasks, current_timer, clocks, current_option,
                  current_language, timer_win, csv_file >>

\* key == ord('q'): break; no clock is stopped on the way out
Quit ==
  /\ ui_pc = "getch"
  /\ ui_pc' = "exited"
  /\ UNCHANGED << tasks, current_timer, clocks, current_option,
                  current_language, timer_win, csv_file >>

(* ---------------------------- clock threads ---------------------------- *)

\* Positions of TimerThread.run:
\*   "loop"  - about to evaluate the while condition
\*   "tick"  - condition held; about to call callback(remaining)
\*   "disp"  - inside display_timer(remaining), window cleared
\*   "after" - loop left; about to evaluate "if not is_set()"
\*   "final" - about to call callback(0)
\*   "fdisp" - inside display_timer(0), window cleared
\*   "done"  - run() has returned
\* The threads are unsynchronised: each position is one step and any other
\* thread may run between two steps.

ClockRest == << tasks, current_timer, current_option, current_language,
                csv_file, ui_pc >>

\* the loop without its test of the stop event
LoopConditionUnstoppable(clk) == clk.remaining > 0

\* while remaining > 0 and not self._stop_event.is_set()
LoopCondition(clk) == clk.remaining > 0 /\ ~clk.stop_event

ClockLoop(c) ==
  /\ clocks[c].pc = "loop"
  /\ clocks' = [clocks EXCEPT ![c].pc =
                  IF LoopCondition(clocks[c]) THEN "tick" ELSE "after"]
  /\ UNCHANGED timer_win
  /\ UNCHANGED ClockRest

\* self.callback(remaining): display_timer clears the window
ClockTick(c) ==
  /\ clocks[c].pc = "tick"
  /\ timer_win' = <<>>
  /\ clocks' = [clocks EXCEPT ![c].pc = "disp"]
  /\ UNCHANGED ClockRest

\* the loop counting down by two
ClockDispSkipping(c) ==
  /\ clocks[c].pc = "disp"
  /\ timer_win' = <<clocks[c].remaining>>
  /\ clocks' = [clocks EXCEPT ![c].pc = "loop", ![c].remaining = @ - 2,
                              ![c].last = clocks[c].remaining]
  /\ UNCHANGED ClockRest

\* display_timer writes the text and returns; time.sleep(1); remaining -= 1
ClockDisp(c) ==
  /\ clocks[c].pc = "disp"
  /\ timer_win' = <<clocks[c].remaining>>
  /\ clocks' = [clocks EXCEPT ![c].pc = "loop", ![c].remaining = @ - 1,
                              ![c].last = clocks[c].remaining]
  /\ UNCHANGED ClockRest

\* if not self._stop_event.is_set()
FinalCondition(clk) == ~clk.stop_event

\* the thread's locals are gone once run() has returned
Finished(clk) == [clk EXCEPT !.pc = "done", !.remaining = 0, !.last = -1]

ClockAfter(c) ==
  /\ clocks[c].pc = "after"
  /\ clocks' = [clocks EXCEPT ![c] =
                  IF FinalCondition(clocks[c]) THEN [@ EXCEPT !.pc = "final"]
                  ELSE Finished(@)]
  /\ UNCHANGED timer_win
  /\ UNCHANGED ClockRest

\* self.callback(0): display_timer clears the window
ClockFinal(c) ==
  /\ clocks[c].pc = "final"
  /\ timer_win' = <<>>
  /\ clocks' = [clocks EXCEPT ![c].pc = "fdisp",
                              ![c].phase = PhaseAfterFinalTick(@)]
  /\ UNCHANGED ClockRest

\* display_timer(0) writes the text; run() returns
ClockFinalDisp(c) ==
  /\ clocks[c].pc = "fdisp"
  /\ timer_win' = <<0>>
  /\ clocks' = [clocks EXCEPT ![c] = Finished(@)]
  /\ UNCHANGED ClockRest

(* ---------------------------- specification ---------------------------- *)

ClockStep ==
  \E c \in 1..Len(clocks) :
    \/ ClockLoop(c)
    \/ ClockTick(c)
    \/ ClockDisp(c)
    \/ ClockAfter(c)
    \/ ClockFinal(c)
    \/ ClockFinalDisp(c)

\* the task list has room for what an AddTask with this text would append
HasRoom(text, max) == ParseInt(text).ok => Len(tasks) < max

\* fewer than max clocks were created, should this start_timer create one
ClockRoom(max) == (tasks # <<>> /\ ~TimerBusy) => Len(clocks) < max

\* duration texts that start no countdown: rejected by int(), or not positive
InstantTexts == {t \in DurationTexts : ~ParseInt(t).ok \/ ParseInt(t).val <= 0}

\* The timer sessions: every command and every duration text, countdowns of
\* a full minute; the user enters one title and leaves the language alone.
Next ==
  \/ NavigateUp
  \/ NavigateDown
  \/ OtherKey
  \/ \E text \in DurationTexts :
       HasRoom(text, MaxTasks) /\ AddTask("a", "d", text)
  \/ StartTimer
  \/ PauseTimer
  \/ StopTimer
  \/ UIDisplayClear
  \/ UIDisplayWrite
  \/ ViewTasks
  \/ VisualizeData
  \/ ExitOption
  \/ Quit
  \/ ClockStep

Spec == Init /\ [][Next]_vars

\* The menu sessions: every key, title and language, with duration texts
\* whose clocks deliver at most the final tick, and a shorter task list.
NextSession ==
  \/ NavigateUp
  \/ NavigateDown
  \/ CycleLanguage
  \/ OtherKey
  \/ \E title \in Titles, desc \in Descriptions, text \in InstantTexts :
       HasRoom(text, MaxSessionTasks) /\ AddTask(title, desc, text)
  \/ StartTimer
  \/ PauseTimer
  \/ StopTimer
  \/ UIDisplayClear
  \/ UIDisplayWrite
  \/ ViewTasks
  \/ VisualizeData
  \/ ExitOption
  \/ Quit
  \/ ClockStep

SpecSession == Init /\ [][NextSession]_vars

(* ------------------------------- claims -------------------------------- *)

InProgressTasks == {i \in 1..Len(tasks) : tasks[i].status = "In Progress"}

\* every duration in the list is one the design accepts
AcceptedDurationsOnly == \A i \in 1..Len(tasks) : tasks[i].duration >= 1

\* C1: in every reachable state at most one task of the task list has
\* status InProgress (stated for the sessions whose durations are all
\* positive, where it does not rest on what AddTask accepts).
C1_AtMostOneInProgress ==
  AcceptedDurationsOnly => Cardinality(InProgressTasks) <= 1

\* C2: a StartTimer step taken in a state where some task is InProgress
\* changes neither the task list nor the timer state (current clock, clocks,
\* seconds shown); stated for the sessions whose durations are all positive.
C2_StartWhileInProgressIsNoOp ==
  [][(StartTimer /\ InProgressTasks # {} /\ AcceptedDurationsOnly)
       => UNCHANGED << tasks, current_timer, clocks, timer_win >>]_vars

\* clock c invokes its tick callback in this step
InvokesCallback(c) ==
  \/ clocks[c].pc = "tick" /\ clocks'[c].pc = "disp"
  \/ clocks[c].pc = "final" /\ clocks'[c].pc = "fdisp"

\* C3: once stop() has returned on a clock (its stop event is set), that
\* clock never invokes its tick callback again.
C3_NoTickAfterStop ==
  [][\A c \in 1..Len(clocks) : clocks[c].stop_event => ~InvokesCallback(c)]_vars

\* C4: at most one clock thread is alive in every state, and a step that
\* creates a clock is taken only when no clock created before is alive.
C4_AtMostOneClockAlive ==
  /\ Cardinality(AliveClocks) <= 1
  /\ [][/\ Len(clocks') > Len(clocks) => AliveClocks = {}
        /\ Cardinality({c \in 1..Len(clocks') : clocks'[c].pc # "done"}) <= 1]_vars

\* a second clock is counting down after the first has returned
C4_Witness ==
  /\ Len(clocks) = 2
  /\ clocks[1].pc = "done"
  /\ clocks[2].pc = "disp"
  /\ clocks[2].remaining < clocks[2].duration

\* stop_timer has returned on the clock current_timer refers to
StopTimerReturns == ui_pc = "display_write" /\ ui_pc' = "getch"

\* C5: when StopTimer, issued while the timer is Running or Paused, returns,
\* the timer is Idle, the seconds shown are 0 and the task the timer was
\* governing has status Stopped.
C5_StopMarksTaskStopped ==
  [][(StopTimerReturns /\ clocks[current_timer].phase = "Idle")
       => /\ timer_win' = <<0>>
          /\ tasks'[clocks[current_timer].task].status = "Stopped"]_vars

\* C6: when a clock started for a positive duration has delivered the tick
\* with remaining 0 while Running and has returned, the seconds shown are 0
\* and the task it was governing has status Completed.
C6_ExpiryMarksTaskCompleted ==
  \A c \in 1..Len(clocks) :
    (clocks[c].pc = "done" /\ clocks[c].phase = "Expired" /\ clocks[c].duration > 0)
      => /\ timer_win = <<0>>
         /\ tasks[clocks[c].task].status = "Completed"

\* C7: every task of the task list has a duration greater than 0.
C7_DurationsPositive == \A i \in 1..Len(tasks) : tasks[i].duration > 0

\* C8: while the timer is Paused (paused and not stopped since), no step
\* starts a clock; stated for the sessions whose durations are all positive.
C8_NoStartWhilePaused ==
  [][(current_timer # 0 /\ clocks[current_timer].phase = "Paused"
        /\ AcceptedDurationsOnly)
       => Len(clocks') = Len(clocks)]_vars

\* C9: once the session loop has been left, no clock is running.
C9_NoClockAfterExit == ui_pc = "exited" => AliveClocks = {}

\* C10: the selected index stays within the menu; a KEY_UP step moves it
\* down by one unless it is 0, a KEY_DOWN step moves it up by one unless it
\* is the last index, and no other step changes it.
C10_MenuIndexClamped ==
  /\ current_option \in 0..(Len(menu_options) - 1)
  /\ [][/\ current_option' \in 0..(Len(menu_options) - 1)
        /\ NavigateUp =>
             current_option' = IF current_option = 0 THEN 0
                               ELSE current_option - 1
        /\ NavigateDown =>
             current_option' = IF current_option = Len(menu_options) - 1
                               THEN current_option
                               ELSE current_option + 1
        /\ current_option' # current_option => (NavigateUp \/ NavigateDown)]_vars

\* the selection has been moved to the last option, with a task added and a
\* timer started on the way
C10_Witness ==
  /\ current_option = Len(menu_options) - 1
  /\ tasks # <<>>
  /\ clocks # <<>>

\* the selector after n more presses of l
RECURSIVE Pressed(_, _)
Pressed(l, n) == IF n = 0 THEN l ELSE Pressed(NextLanguage(l), n - 1)

\* C11: the language index always addresses a tag; a press of l moves it to
\* the next tag and from the last tag to the first, one press short of a
\* full round from there leads back to where it was, and the press changes
\* no task.
C11_LanguageCycles ==
  /\ current_language \in 0..(Len(languages) - 1)
  /\ [][CycleLanguage =>
          /\ current_language' \in 0..(Len(languages) - 1)
          /\ current_language' = IF current_language = Len(languages) - 1
                                 THEN 0 ELSE current_language + 1
          /\ Pressed(current_language', Len(languages) - 1) = current_language
          /\ tasks' = tasks]_vars

\* l was pressed after a task was added with the last tag: the selector has
\* wrapped to the first tag and the task keeps its own
C11_Witness ==
  /\ current_language = 0
  /\ tasks # <<>>
  /\ tasks[1].language = languages[Len(languages)]

\* no task is InProgress and no clock is alive
TimerFree == InProgressTasks = {} /\ AliveClocks = {}

\* clock c hands v to its callback in this step, and nothing before it
FirstDelivery(c, v) ==
  /\ clocks[c].last = -1
  /\ \/ clocks[c].pc = "tick" /\ clocks'[c].pc = "disp" /\ v = clocks[c].remaining
     \/ clocks[c].pc = "final" /\ clocks'[c].pc = "fdisp" /\ v = 0

\* C12: a StartTimer step on a non-empty list with no task InProgress and no
\* clock running sets the status of the last task, and of no other, to
\* InProgress and starts one clock; the first value a clock delivers is the
\* duration of its task times 60; a StartTimer step on an empty list
\* changes nothing.
C12_StartTimerStartsLastTask ==
  [][/\ (StartTimer /\ tasks # <<>> /\ TimerFree) =>
          /\ tasks' = [tasks EXCEPT ![Len(tasks)].status = "In Progress"]
          /\ Len(clocks') = Len(clocks) + 1
          /\ clocks'[Len(clocks')].pc # "done"
          /\ current_timer' = Len(clocks')
     /\ (StartTimer /\ tasks = <<>>) => UNCHANGED vars
     /\ \A c \in 1..Len(clocks) : \A v \in 0..SecondsPerMinute :
          FirstDelivery(c, v) => v = tasks[clocks[c].task].duration * 60]_vars

\* no clock was ever started, or the last one has expired or been stopped
\* and has returned
NoActiveTimer ==
  \/ current_timer = 0
  \/ /\ clocks[current_timer].pc = "done"
     /\ clocks[current_timer].phase \in {"Idle", "Expired"}

\* what can be seen of the clocks: where each thread is and what it has left
ClockState(cs) == [c \in 1..Len(cs) |-> << cs[c].pc, cs[c].remaining >>]

\* C13: a PauseTimer or StopTimer step taken when no timer is active leaves
\* the task list, the clock threads and the seconds shown as they were.
\* stop_timer ends by showing 0 seconds, so it leaves the seconds shown
\* unchanged only when 0 was shown before.
C13_NoTimerNoOp ==
  [][/\ (PauseTimer /\ NoActiveTimer) =>
          /\ UNCHANGED << tasks, current_timer, timer_win >>
          /\ ClockState(clocks') = ClockState(clocks)
     /\ (StopTimer /\ NoActiveTimer) =>
          /\ UNCHANGED << tasks, current_timer >>
          /\ ClockState(clocks') = ClockState(clocks)
          /\ IF current_timer = 0 THEN UNCHANGED << timer_win, ui_pc >>
             ELSE timer_win = <<0>>]_vars

\* The task sessions: every key, command and language, longer task lists
\* and fewer clocks; the user adds tasks "a" and "b" in turn, "a" with the duration
\* text "0" and "b" with "-1" (clocks that deliver only the final tick), or
\* mistypes the duration.
TurnTitle == IF Len(tasks) % 2 = 0 THEN "a" ELSE "b"

TurnTexts ==
  {t \in DurationTexts : ~ParseInt(t).ok}
    \cup {IF Len(tasks) % 2 = 0 THEN <<"0">> ELSE <<"-", "1">>}

NextTasks ==
  \/ NavigateUp
  \/ NavigateDown
  \/ CycleLanguage
  \/ OtherKey
  \/ \E desc \in Descriptions, text \in TurnTexts :
       HasRoom(text, MaxTasks) /\ AddTask(TurnTitle, desc, text)
  \/ ClockRoom(MaxTaskClocks) /\ StartTimer
  \/ PauseTimer
  \/ StopTimer
  \/ UIDisplayClear
  \/ UIDisplayWrite
  \/ ViewTasks
  \/ VisualizeData
  \/ ExitOption
  \/ Quit
  \/ ClockStep

SpecTasks == Init /\ [][NextTasks]_vars

\* the integer each accepted duration text stands for
EnteredMinutes(text) ==
  CASE text = <<"0">> -> 0
    [] text = <<"-", "1">> -> -1
    [] text = <<"1">> -> 1
    [] text = <<" ", "1">> -> 1

\* title, description, duration and tag of a task: all but its status
Identity(t) == << t.title, t.description, t.duration, t.language >>

\* C14: an AddTask step that changes the list appends exactly one task, with
\* status NotStarted, the title, description and duration entered and the
\* tag selected at that moment, and leaves the tasks before it as they
\* were; no step of any kind shortens the list or moves a task.
C14_AddTaskAppends ==
  [][/\ \A title \in Titles, desc \in Descriptions, text \in DurationTexts :
          (tasks' # tasks /\ AddTask(title, desc, text)) =>
            tasks' = Append(tasks,
                            [ title |-> title, description |-> desc,
                              duration |-> EnteredMinutes(text),
                              language |-> languages[current_language + 1],
                              status |-> "Not Started" ])
     /\ Len(tasks') \in {Len(tasks), Len(tasks) + 1}
     /\ \A i \in 1..Len(tasks) : Identity(tasks'[i]) = Identity(tasks[i])]_vars

\* a second task was appended, under another tag, behind one whose timer
\* had been started
C14_Witness ==
  /\ Len(tasks) = 2
  /\ tasks[1].title = "a" /\ tasks[1].status = "In Progress"
  /\ tasks[2].title = "b" /\ tasks[2].status = "Not Started"
  /\ tasks[1].language = "Golang" /\ tasks[2].language = "Rust"
  /\ tasks[1].duration = 0 /\ tasks[2].duration = -1

\* The countdown sessions: the timer sessions with one duration text for
\* each outcome of int() (a full minute, none, less than none, rejected) and
\* a shorter task list.
CountdownTexts == {<<"1">>, <<"0">>, <<"-", "1">>, <<"x">>}

NextCountdown ==
  \/ NavigateUp
  \/ NavigateDown
  \/ OtherKey
  \/ \E text \in CountdownTexts :
       HasRoom(text, MaxSessionTasks) /\ AddTask("a", "d", text)
  \/ StartTimer
  \/ PauseTimer
  \/ StopTimer
  \/ UIDisplayClear
  \/ UIDisplayWrite
  \/ ViewTasks
  \/ VisualizeData
  \/ ExitOption
  \/ Quit
  \/ ClockStep

SpecCountdown == Init /\ [][NextCountdown]_vars

\* clock c writes v through its callback in this step
Delivers(c, v) ==
  /\ clocks[c].pc \in {"disp", "fdisp"}
  /\ clocks'[c].pc # clocks[c].pc
  /\ timer_win' = <<v>>

\* run() of clock c returns in this step
Returns(c) == clocks[c].pc # "done" /\ clocks'[c].pc = "done"

\* C15: a clock on which stop() is never called delivers its duration in
\* seconds first (when that is positive), then each time one less than the
\* value before, and returns right after delivering 0, which it delivers
\* once; started for no more than 0 seconds it delivers 0 and nothing else.
C15_CountdownSequence ==
  [][\A c \in 1..Len(clocks) :
       (~clocks[c].stop_event /\ ~clocks'[c].stop_event) =>
         /\ \A v \in 0..SecondsPerMinute :
              Delivers(c, v) =>
                /\ v = IF clocks[c].last = -1
                       THEN (IF clocks[c].duration > 0 THEN clocks[c].duration ELSE 0)
                       ELSE clocks[c].last - 1
                /\ (v = 0) = Returns(c)
         /\ Returns(c) => Delivers(c, 0)
         /\ (clocks[c].pc \in {"disp", "fdisp"} /\ clocks'[c].pc # clocks[c].pc)
              => \E v \in 0..SecondsPerMinute : Delivers(c, v)]_vars

\* a clock started for one minute has counted down to the end, unstopped
C15_Witness ==
  \E c \in 1..Len(clocks) :
    /\ clocks[c].pc = "done"
    /\ clocks[c].duration = SecondsPerMinute
    /\ ~clocks[c].stop_event
    /\ clocks[c].phase = "Expired"
    /\ timer_win = <<0>>

\* C16: while the timer is Idle after a completed StopTimer (the UI thread
\* is back at the menu and no StartTimer has replaced the clock), the
\* timer window shows no seconds other than 0.
C16_ZeroShownAfterStop ==
  (/\ current_timer # 0
   /\ clocks[current_timer].phase = "Idle"
   /\ ui_pc \in {"getch", "exited"})
    => timer_win \in {<<0>>, <<>>}

\* C17: no clock thread is inside display_timer while the UI thread is
\* inside the display_timer(0) of stop_timer.
C17_DisplayTimerExclusive ==
  ui_pc = "display_write"
    => \A c \in 1..Len(clocks) : clocks[c].pc \notin {"disp", "fdisp"}

\* C18: when pause_timer or stop_timer has returned (the UI thread is back
\* at the menu), the clock it called stop() on is no longer alive.
C18_StoppedClockHasReturned ==
  (/\ current_timer # 0
   /\ clocks[current_timer].stop_event
   /\ ui_pc = "getch")
    => ~is_alive(current_timer)

\* one step of thread c
ClockRun(c) ==
  /\ c \in 1..Len(clocks)
  /\ \/ ClockLoop(c)
     \/ ClockTick(c)
     \/ ClockDisp(c)
     \/ ClockAfter(c)
     \/ ClockFinal(c)
     \/ ClockFinalDisp(c)

\* The countdown sessions with every started thread scheduled again and
\* again, as the interpreter schedules its threads; the user may stop typing.
FairSpec == SpecCountdown /\ \A c \in 1..MaxClocks : WF_vars(ClockRun(c))

\* C19: every clock that has been started eventually returns, and once
\* stop() has been called on it, its next test of the loop condition leaves
\* the loop and its next test after the loop returns.
C19_ClockTerminates ==
  /\ \A c \in 1..MaxClocks :
       (Len(clocks) >= c) ~> (Len(clocks) >= c /\ clocks[c].pc = "done")
  /\ [][\A c \in 1..Len(clocks) :
          clocks[c].stop_event =>
            /\ clocks[c].pc = "loop" => clocks'[c].pc \in {"loop", "after"}
            /\ clocks[c].pc = "after" => clocks'[c].pc \in {"after", "done"}]_vars

\* a one-minute clock was stopped during its countdown and has returned
C19_Witness ==
  \E c \in 1..Len(clocks) :
    /\ clocks[c].pc = "done"
    /\ clocks[c].duration = SecondsPerMinute
    /\ clocks[c].stop_event
    /\ clocks[c].phase = "Paused"
    /\ timer_win = <<SecondsPerMinute - 1>>

\* the duration texts that int() rejects
RejectedTexts == {t \in DurationTexts : ~ParseInt(t).ok}

\* C20: an AddTask whose duration text does not parse as an integer changes
\* nothing: the task list and its statuses, the file and the number of times
\* it was written, the menu selection, the language selection, the current
\* timer and the clocks are as they were.
C20_RejectedAddHasNoEffect ==
  [][\A title \in Titles, desc \in Descriptions, text \in RejectedTexts :
       AddTask(title, desc, text) =>
         UNCHANGED << tasks, csv_file, current_option, current_language,
                      current_timer, clocks >>]_vars

\* Add Task is selected with something to lose: a task in progress with its
\* clock alive, a file already written and a language other than the first
C20_Witness ==
  /\ ENABLED AddTask(TurnTitle, "d", <<"1", "x">>)
  /\ InProgressTasks # {}
  /\ TimerBusy
  /\ csv_file.writes >= 1
  /\ current_language # 0

====
